---- MODULE Spec2Model ----
(***************************************************************************)
(* vdodumpconfig: dump the configuration of a VDO volume from its backing  *)
(* store.  Model of src/utils/vdo/user/vdodumpconfig.c.                    *)
(*                                                                         *)
(* A command-line word is a sequence of one-character strings, so that     *)
(* getopt_long's character tests are computed and not assumed.  An output  *)
(* stream is the sequence of the printf/errx calls that reached it, each   *)
(* a record [fmt, args] holding the format string and the rendered         *)
(* conversions.                                                            *)
(***************************************************************************)
EXTENDS Integers, Sequences, FiniteSets, TLC

\* ------------------------------------------------------------------ bounds
\* Largest number of command-line words after the program name.
MaxArgs == 3

\* ------------------------------------------------------- command-line words
TokH    == <<"-", "h">>
TokHelp == <<"-", "-", "h", "e", "l", "p">>
TokX    == <<"-", "x">>
TokBad  == <<"-", "-", "b", "a", "d">>
TokDD   == <<"-", "-">>
TokVol  == <<"v", "o", "l">>
TokImg  == <<"i", "m", "g">>
Progname == <<"v", "d", "o", "d", "u", "m", "p", "c", "o", "n", "f", "i", "g">>

Tokens == {TokH, TokHelp, TokX, TokBad, TokDD, TokVol, TokImg}

\* Every command line: the program name followed by at most MaxArgs words.
RECURSIVE SeqsUpTo(_, _)
SeqsUpTo(S, n) ==
  IF n = 0 THEN {<< >>}
  ELSE LET shorter == SeqsUpTo(S, n - 1)
       IN  shorter \cup {Append(s, t) : s \in {x \in shorter : Len(x) = n - 1}, t \in S}

CommandLines == {<<Progname>> \o s : s \in SeqsUpTo(Tokens, MaxArgs)}

\* C indexing of argv: argv[0] is the program name.
Arg(a, i) == a[i + 1]
Argc(a)   == Len(a)

\* Mutant: the option string names another letter.
optionString_wrongLetter == <<"x">>

\* ------------------------------------------------------------ option tables
\* char *optionString = "h";
optionString == <<"h">>

\* static struct option options[]: the long names, all no_argument, val 'h'.
options == {<<"h", "e", "l", "p">>}

\* static const char helpString[], abridged.
helpString == "vdodumpconfig - dump the configuration of a VDO volume from its backing store.\n"

\* ------------------------------------------------------------- getopt_long
\* glibc's NONOPTION_P: the word does not start with '-' or is "-" alone.
NONOPTION_P(w) == Len(w) = 0 \/ w[1] # "-" \/ Len(w) = 1

\* while (optind < argc && NONOPTION_P) optind++;
RECURSIVE SkipNonOptions(_, _)
SkipNonOptions(a, oi) ==
  IF oi < Argc(a) /\ NONOPTION_P(Arg(a, oi)) THEN SkipNonOptions(a, oi + 1) ELSE oi

\* glibc's exchange(): the non-options a[first..last) and the options
\* a[last..oi) swap places, each block keeping its order.
exchange(a, first, last, oi) ==
  SubSeq(a, 1, first) \o SubSeq(a, last + 1, oi) \o SubSeq(a, first + 1, last)
    \o SubSeq(a, oi + 1, Len(a))

IsPrefix(s, t) == Len(s) <= Len(t) /\ SubSeq(t, 1, Len(s)) = s

\* Index of the first "=" of w, or Len(w) + 1.
RECURSIVE NameEnd(_, _)
NameEnd(w, i) == IF i > Len(w) \/ w[i] = "=" THEN i ELSE NameEnd(w, i + 1)

\* glibc's process_long_option for a word "--name[=value]": the name matches
\* a table entry exactly or as an abbreviation; every entry is no_argument.
process_long_option(w) ==
  LET stop == NameEnd(w, 3)
      name == SubSeq(w, 3, stop - 1)
      hits == {o \in options : IsPrefix(name, o)}
  IN  IF hits = {}
        THEN [c |-> "?", err |-> <<[fmt |-> "%s: unrecognized option '%s'\n",
                                    args |-> <<Progname, w>>]>>]
      ELSE IF stop <= Len(w)
        THEN [c |-> "?", err |-> <<[fmt |-> "%s: option '--%s' doesn't allow an argument\n",
                                    args |-> <<Progname, CHOOSE o \in hits : TRUE>>]>>]
      ELSE [c |-> "h", err |-> << >>]

\* The short-option step: c = *nextchar++, looked up in the option string.
short_option(w) ==
  LET c == w[2]
  IN  IF c \in {optionString[i] : i \in 1..Len(optionString)} /\ c # ":" /\ c # ";"
        THEN [c |-> c, err |-> << >>]
        ELSE [c |-> "?", err |-> <<[fmt |-> "%s: invalid option -- '%s'\n",
                                    args |-> <<Progname, <<c>>>>]>>]

\* The first call of getopt_long(argc, argv, optionString, options, NULL):
\* optind starts at 1 and no option cluster is being scanned.  The ordering
\* is REQUIRE_ORDER when POSIXLY_CORRECT is set in the environment, PERMUTE
\* otherwise.  Result: the returned character ("EOF" for -1), optind, the
\* possibly permuted argv, and what getopt printed on standard error.
getopt_long(a, posixly) ==
  LET argc   == Argc(a)
      first0 == 1
      oi1    == IF posixly THEN 1 ELSE SkipNonOptions(a, 1)
      last1  == IF posixly THEN 1 ELSE oi1
      isDD   == oi1 # argc /\ Arg(a, oi1) = TokDD
      oi2    == oi1 + 1
      swap   == isDD /\ first0 # last1 /\ last1 # oi2
      a2     == IF swap THEN exchange(a, first0, last1, oi2) ELSE a
      first2 == IF swap THEN first0 + (oi2 - last1)
                ELSE IF isDD /\ first0 = last1 THEN oi2 ELSE first0
      last2  == IF isDD THEN argc ELSE last1
      oi3    == IF isDD THEN argc ELSE oi1
  IN  IF oi3 = argc
        THEN [c |-> "EOF", optind |-> IF first2 # last2 THEN first2 ELSE oi3,
              argv |-> a2, err |-> << >>]
      ELSE IF NONOPTION_P(Arg(a2, oi3))
        THEN [c |-> "EOF", optind |-> oi3, argv |-> a2, err |-> << >>]
      ELSE IF Arg(a2, oi3)[2] = "-"
        THEN LET r == process_long_option(Arg(a2, oi3))
             IN  [c |-> r.c, optind |-> oi3 + 1, argv |-> a2, err |-> r.err]
      ELSE LET w == Arg(a2, oi3)
               r == short_option(w)
           IN  [c |-> r.c, optind |-> IF Len(w) = 2 THEN oi3 + 1 ELSE oi3,
                argv |-> a2, err |-> r.err]

\* ------------------------------------------------------- unsigned 64 bits
\* A uint64_t is four 16-bit limbs, most significant first.
Limb == 2 ^ 16
U64(a, b, c, d) == <<a, b, c, d>>
U64Zero == U64(0, 0, 0, 0)
U64Max  == U64(65535, 65535, 65535, 65535)

DigitChars == <<"0", "1", "2", "3", "4", "5", "6", "7", "8", "9">>

\* Long division of the limbs by ten: quotient limbs and remainder.
RECURSIVE DivTen(_, _, _)
DivTen(v, i, rem) ==
  IF i > Len(v) THEN [q |-> << >>, r |-> rem]
  ELSE LET cur  == rem * Limb + v[i]
           rest == DivTen(v, i + 1, cur % 10)
       IN  [q |-> <<cur \div 10>> \o rest.q, r |-> rest.r]

RECURSIVE DigitsOf(_)
DigitsOf(v) ==
  IF v = U64Zero THEN << >>
  ELSE LET d == DivTen(v, 1, 0) IN Append(DigitsOf(d.q), DigitChars[d.r + 1])

\* Mutant: the value is converted as a 32-bit unsigned (%u).
FormatU64_truncated(v) ==
  IF <<0, 0, v[3], v[4]>> = U64Zero THEN <<"0">> ELSE DigitsOf(<<0, 0, v[3], v[4]>>)

\* printf's "%" PRIu64 conversion.
FormatU64(v) == IF v = U64Zero THEN <<"0">> ELSE DigitsOf(v)

RECURSIVE NatDigits(_)
NatDigits(n) == IF n = 0 THEN << >> ELSE Append(NatDigits(n \div 10), DigitChars[(n % 10) + 1])

\* printf's "%d" conversion of an int.
FormatInt(n) ==
  IF n = 0 THEN <<"0">> ELSE IF n < 0 THEN <<"-">> \o NatDigits(-n) ELSE NatDigits(n)

\* ------------------------------------------------------------ the volume
\* VDOConfig: the five fields main prints, each a uint64_t.
VDOConfig(lb, pb, ss, rj, sj) ==
  [logicalBlocks |-> lb, physicalBlocks |-> pb, slabSize |-> ss,
   recoveryJournalSize |-> rj, slabJournalBlocks |-> sj]

ZeroConfig    == VDOConfig(U64Zero, U64Zero, U64Zero, U64Zero, U64Zero)
ExampleConfig == VDOConfig(U64(0, 0, 0, 1024), U64(0, 0, 0, 2048), U64(0, 0, 0, 512),
                           U64(0, 0, 0, 64), U64(0, 0, 0, 16))
MaxConfig     == VDOConfig(U64Max, U64Max, U64Max, U64Max, U64Max)
\* 2^31, 2^32, 2^63, 0 and 2^64 - 2^48: the values a narrower or a signed
\* conversion would print differently.
WideConfig    == VDOConfig(U64(0, 0, 32768, 0), U64(0, 1, 0, 0), U64(32768, 0, 0, 0),
                           U64Zero, U64(65535, 0, 0, 0))
Configs == {ExampleConfig, MaxConfig, WideConfig}

\* The compile-time block size of the storage format (constants.h).
VDO_BLOCK_SIZE == 4096

\* What the file system holds at a path: nothing, a file that is no volume,
\* or a volume with its persisted state and configuration.
MissingFile == [kind |-> "missing", state |-> "none", config |-> ZeroConfig]
EmptyFile   == [kind |-> "empty", state |-> "none", config |-> ZeroConfig]
Volume(st, cfg) == [kind |-> "vdo", state |-> st, config |-> cfg]
Files == {MissingFile, EmptyFile, Volume("clean", ExampleConfig),
          Volume("dirty", MaxConfig), Volume("recoverable", WideConfig)}

\* The file at `path`: the file system holds `d` at "vol" and nothing else.
FileAt(path, d) == IF path = TokVol THEN d ELSE MissingFile

\* makeVDOFromFile(filename, readOnly, &vdo) of the volume library: loads a
\* valid volume, and writes to the backing store only when it was not
\* asked for read-only access.
makeVDOFromFile(path, readOnly, d) ==
  LET f == FileAt(path, d)
  IN  IF f.kind = "vdo"
        THEN [result |-> "VDO_SUCCESS",
              vdo    |-> [st |-> "open", config |-> f.config],
              disk   |-> IF readOnly \/ path # TokVol THEN d
                         ELSE [d EXCEPT !.state = "clean"]]
        ELSE [result |-> IF f.kind = "missing" THEN "ENOENT" ELSE "VDO_BAD_MAGIC",
              vdo    |-> [st |-> "unset", config |-> ZeroConfig],
              disk   |-> d]

\* freeVDOFromFile(&vdo): the handle's memory is released.
freeVDOFromFile(v) == [v EXCEPT !.st = "freed"]

\* vdo->config: the stored configuration while the handle is live; reading
\* released or unset memory yields any value.
Deref(v) == IF v.st = "open" THEN {v.config} ELSE Configs \cup {ZeroConfig}

\* ------------------------------------------------------------------ state
VARIABLES
  argv0,       \* the command line of the invocation
  posix,       \* POSIXLY_CORRECT is set in the environment of this run
  argv,        \* argv as getopt_long leaves it
  optind,      \* getopt's optind
  pc,          \* position of the process in main
  vdoBacking,  \* const char *vdoBacking
  vdo,         \* VDO *vdo of readVDOConfig and what it points to
  config,      \* VDOConfig config
  calls,       \* the printf calls of main's report made so far
  stdout,      \* what the program has written to the stream stdout
  delivered,   \* what of it the file behind standard output accepted
  stderr,      \* what the program has written to standard error
  outErr,      \* a write to standard output has failed
  exitCode,    \* exit status, -1 while the process runs
  disk,        \* the backing store "vol"
  disk0,       \* the backing store before the first invocation
  opens,       \* the makeVDOFromFile calls made: [path, readOnly, result]
  trace,       \* the events of this run, in order
  prev         \* the outcome of the previous invocation, if there was one

vars == <<argv0, posix, argv, optind, pc, vdoBacking, vdo, config, calls, stdout,
          delivered, stderr, outErr, exitCode, disk, disk0, opens, trace, prev>>

NoVDO  == [st |-> "unset", config |-> ZeroConfig]
NoPrev == [ran |-> FALSE, stdout |-> << >>, stderr |-> << >>, exitCode |-> -1,
           posix |-> FALSE, outErr |-> FALSE]

\* The process image at exec time.
Fresh ==
  /\ pc = "processArgs"
  /\ optind = 1
  /\ vdoBacking = << >>
  /\ vdo = NoVDO
  /\ config = ZeroConfig
  /\ calls = 0
  /\ stdout = << >>
  /\ delivered = << >>
  /\ stderr = << >>
  /\ outErr = FALSE
  /\ exitCode = -1
  /\ opens = << >>
  /\ trace = << >>

Init ==
  /\ argv0 \in CommandLines
  /\ argv = argv0
  /\ posix \in BOOLEAN
  /\ disk \in Files
  /\ disk0 = disk
  /\ prev = NoPrev
  /\ Fresh

\* ------------------------------------------------------------------ stdio
\* A write that the file accepts is appended; a failed one is lost.
Emit(stream, line, ok) == IF ok THEN Append(stream, line) ELSE stream

\* errx(status, fmt, ...): "<progname>: <message>\n" on standard error.
\* usage(): errx(1, "Usage: %s %s\n", progname, usageString), the format's
\* own newline giving a second, empty line.
UsageLine(a) ==
  [fmt |-> "%s: Usage: %s [--help] vdoBacking\n\n", args |-> <<Progname, Arg(a, 0)>>]

\* errx(1, "Could not load VDO from '%s'", vdoBacking)
LoadFailLine(path) ==
  [fmt |-> "%s: Could not load VDO from '%s'\n", args |-> <<Progname, path>>]

HelpLine == [fmt |-> helpString, args |-> << >>]

\* Exit statuses of the three ways out.
usageStatus    == 1
loadFailStatus == 1
helpStatus     == 0

\* Mutant: getopt's '?' falls into the help case.
IsHelpCase_noDefault(c) == c \in {"h", "?"}

\* ------------------------------------------------------------ processArgs
\* switch (c): case 'h' prints the help, every other character is a usage
\* error.
IsHelpCase(c) == c = "h"

\* Mutant: only a missing path is refused.
WrongArgCount_onlyMissing(oi, argc) == oi > argc - 1

\* if (optind != (argc - 1)) usage(argv[0]);
WrongArgCount(oi, argc) == oi # argc - 1

\* Mutant: the first word is returned, wherever optind stands.
ReturnedArg_first(a, oi) == Arg(a, 1)

\* return argv[optind++];
ReturnedArg(a, oi) == Arg(a, oi)

\* Mutant: the volume is opened for writing.
ReadOnlyArg_false == FALSE

\* The third argument of makeVDOFromFile in readVDOConfig.
ReadOnlyArg == TRUE

\* case 'h': printf("%s", helpString); exit(0);
ProcessArgsHelp ==
  /\ pc = "processArgs"
  /\ LET g == getopt_long(argv, posix)
     IN  /\ g.c # "EOF" /\ IsHelpCase(g.c)
         /\ argv' = g.argv
         /\ optind' = g.optind
         /\ stderr' = stderr \o g.err
         /\ stdout' = Append(stdout, HelpLine)
         /\ \E ok \in BOOLEAN :
              /\ delivered' = Emit(delivered, HelpLine, ok)
              /\ outErr' = ~ok
  /\ pc' = "exited"
  /\ exitCode' = helpStatus
  /\ trace' = trace \o <<"processArgs", "exit">>
  /\ UNCHANGED <<argv0, posix, vdoBacking, vdo, config, calls, disk, disk0, opens,
                 prev>>

\* default: usage(argv[0]);
ProcessArgsBadOption ==
  /\ pc = "processArgs"
  /\ LET g == getopt_long(argv, posix)
     IN  /\ g.c # "EOF" /\ ~IsHelpCase(g.c)
         /\ argv' = g.argv
         /\ optind' = g.optind
         /\ stderr' = (stderr \o g.err) \o <<UsageLine(g.argv)>>
  /\ pc' = "exited"
  /\ exitCode' = usageStatus
  /\ trace' = trace \o <<"processArgs", "exit">>
  /\ UNCHANGED <<argv0, posix, vdoBacking, vdo, config, calls, stdout, delivered, outErr, disk,
                 disk0, opens, prev>>

\* The loop ended; if (optind != (argc - 1)) usage(argv[0]);
ProcessArgsCount ==
  /\ pc = "processArgs"
  /\ LET g == getopt_long(argv, posix)
     IN  /\ g.c = "EOF"
         /\ WrongArgCount(g.optind, Argc(g.argv))
         /\ argv' = g.argv
         /\ optind' = g.optind
         /\ stderr' = (stderr \o g.err) \o <<UsageLine(g.argv)>>
  /\ pc' = "exited"
  /\ exitCode' = usageStatus
  /\ trace' = trace \o <<"processArgs", "exit">>
  /\ UNCHANGED <<argv0, posix, vdoBacking, vdo, config, calls, stdout, delivered, outErr, disk,
                 disk0, opens, prev>>

\* The loop ended with one word left: return argv[optind++];
ProcessArgsReturn ==
  /\ pc = "processArgs"
  /\ LET g == getopt_long(argv, posix)
     IN  /\ g.c = "EOF"
         /\ ~WrongArgCount(g.optind, Argc(g.argv))
         /\ argv' = g.argv
         /\ vdoBacking' = ReturnedArg(g.argv, g.optind)
         /\ optind' = g.optind + 1
         /\ stderr' = stderr \o g.err
  /\ pc' = "openLogger"
  /\ trace' = Append(trace, "processArgs")
  /\ UNCHANGED <<argv0, posix, vdo, config, calls, stdout, delivered, outErr, exitCode, disk,
                 disk0, opens, prev>>

\* ------------------------------------------------------------------- main
\* openLogger();
OpenLogger ==
  /\ pc = "openLogger"
  /\ pc' = "makeVDOFromFile"
  /\ trace' = Append(trace, "openLogger")
  /\ UNCHANGED <<argv0, posix, argv, optind, vdoBacking, vdo, config, calls, stdout, delivered,
                 stderr, outErr, exitCode, disk, disk0, opens, prev>>

\* Mutants: the handle is never released; it is released before the copy.
readVDOConfigBody_noFree    == <<"copy", "return">>
readVDOConfigBody_freeFirst == <<"free", "copy", "return">>

\* ---------------------------------------------------------- readVDOConfig
\* The statements of readVDOConfig after a successful makeVDOFromFile:
\*   VDOConfig config = vdo->config;  freeVDOFromFile(&vdo);  return config;
readVDOConfigBody == <<"copy", "free", "return">>

\* The statement after statement i of the body.
StepAfter(i) ==
  IF i < Len(readVDOConfigBody) THEN readVDOConfigBody[i + 1] ELSE "printf"

AtStep(name) ==
  \E i \in 1..Len(readVDOConfigBody) :
    /\ readVDOConfigBody[i] = name
    /\ pc = name
    /\ pc' = StepAfter(i)

\* int result = makeVDOFromFile(vdoBacking, true, &vdo); result == VDO_SUCCESS
MakeVDOSucceeds ==
  /\ pc = "makeVDOFromFile"
  /\ LET r == makeVDOFromFile(vdoBacking, ReadOnlyArg, disk)
     IN  /\ r.result = "VDO_SUCCESS"
         /\ vdo' = r.vdo
         /\ disk' = r.disk
         /\ opens' = Append(opens, [path |-> vdoBacking, readOnly |-> ReadOnlyArg,
                                    result |-> r.result])
  /\ pc' = StepAfter(0)
  /\ trace' = Append(trace, "open")
  /\ UNCHANGED <<argv0, posix, argv, optind, vdoBacking, config, calls, stdout, delivered, stderr,
                 outErr, exitCode, disk0, prev>>

\* if (result != VDO_SUCCESS) errx(1, "Could not load VDO from '%s'", vdoBacking);
MakeVDOFails ==
  /\ pc = "makeVDOFromFile"
  /\ LET r == makeVDOFromFile(vdoBacking, ReadOnlyArg, disk)
     IN  /\ r.result # "VDO_SUCCESS"
         /\ vdo' = r.vdo
         /\ disk' = r.disk
         /\ opens' = Append(opens, [path |-> vdoBacking, readOnly |-> ReadOnlyArg,
                                    result |-> r.result])
  /\ stderr' = Append(stderr, LoadFailLine(vdoBacking))
  /\ pc' = "exited"
  /\ exitCode' = loadFailStatus
  /\ trace' = trace \o <<"openfail", "exit">>
  /\ UNCHANGED <<argv0, posix, argv, optind, vdoBacking, config, calls, stdout, delivered, outErr,
                 disk0, prev>>

\* VDOConfig config = vdo->config;
CopyConfig ==
  /\ AtStep("copy")
  /\ config' \in Deref(vdo)
  /\ trace' = Append(trace, "copy")
  /\ UNCHANGED <<argv0, posix, argv, optind, vdoBacking, vdo, calls, stdout, delivered, stderr,
                 outErr, exitCode, disk, disk0, opens, prev>>

\* freeVDOFromFile(&vdo);
FreeVDO ==
  /\ AtStep("free")
  /\ vdo' = freeVDOFromFile(vdo)
  /\ trace' = Append(trace, "free")
  /\ UNCHANGED <<argv0, posix, argv, optind, vdoBacking, config, calls, stdout, delivered, stderr,
                 outErr, exitCode, disk, disk0, opens, prev>>

\* return config;
ReturnConfig ==
  /\ AtStep("return")
  /\ trace' = Append(trace, "return")
  /\ UNCHANGED <<argv0, posix, argv, optind, vdoBacking, vdo, config, calls, stdout, delivered,
                 stderr, outErr, exitCode, disk, disk0, opens, prev>>

\* ----------------------------------------------------------------- report
\* The seven printf calls of main, in program order.
mainPrintfs(cfg) ==
  << [fmt |-> "VDOConfig:\n", args |-> << >>],
     [fmt |-> "  blockSize: %d\n", args |-> <<FormatInt(VDO_BLOCK_SIZE)>>],
     [fmt |-> "  logicalBlocks: %lu\n", args |-> <<FormatU64(cfg.logicalBlocks)>>],
     [fmt |-> "  physicalBlocks: %lu\n", args |-> <<FormatU64(cfg.physicalBlocks)>>],
     [fmt |-> "  slabSize: %lu\n", args |-> <<FormatU64(cfg.slabSize)>>],
     [fmt |-> "  recoveryJournalSize: %lu\n",
      args |-> <<FormatU64(cfg.recoveryJournalSize)>>],
     [fmt |-> "  slabJournalBlocks: %lu\n", args |-> <<FormatU64(cfg.slabJournalBlocks)>>] >>

\* One printf of the report.  Its return value is not looked at: a failed
\* write loses the line and the program goes on.  Once the file has
\* refused a write, it refuses the later ones too.
Printf ==
  /\ pc = "printf"
  /\ calls < Len(mainPrintfs(config))
  /\ stdout' = Append(stdout, mainPrintfs(config)[calls + 1])
  /\ \E ok \in (IF outErr THEN {FALSE} ELSE BOOLEAN) :
       /\ delivered' = Emit(delivered, mainPrintfs(config)[calls + 1], ok)
       /\ outErr' = ~ok
  /\ calls' = calls + 1
  /\ trace' = Append(trace, "printf")
  /\ UNCHANGED <<argv0, posix, argv, optind, pc, vdoBacking, vdo, config, stderr,
                 exitCode, disk, disk0, opens, prev>>

\* exit(0);
Exit ==
  /\ pc = "printf"
  /\ calls = Len(mainPrintfs(config))
  /\ pc' = "exited"
  /\ exitCode' = 0
  /\ trace' = Append(trace, "exit")
  /\ UNCHANGED <<argv0, posix, argv, optind, vdoBacking, vdo, config, calls, stdout, delivered,
                 stderr, outErr, disk, disk0, opens, prev>>

\* The same command line is run again, in the same environment, against
\* the backing store as the previous run left it.
Reinvoke ==
  /\ pc = "exited"
  /\ prev' = [ran |-> TRUE, stdout |-> stdout, stderr |-> stderr,
              exitCode |-> exitCode, posix |-> posix, outErr |-> outErr]
  /\ argv' = argv0
  /\ pc' = "processArgs"
  /\ optind' = 1
  /\ vdoBacking' = << >>
  /\ vdo' = NoVDO
  /\ config' = ZeroConfig
  /\ calls' = 0
  /\ stdout' = << >>
  /\ delivered' = << >>
  /\ stderr' = << >>
  /\ outErr' = FALSE
  /\ exitCode' = -1
  /\ opens' = << >>
  /\ trace' = << >>
  /\ UNCHANGED <<argv0, posix, disk, disk0>>

Next ==
  \/ ProcessArgsHelp
  \/ ProcessArgsBadOption
  \/ ProcessArgsCount
  \/ ProcessArgsReturn
  \/ OpenLogger
  \/ MakeVDOSucceeds
  \/ MakeVDOFails
  \/ CopyConfig
  \/ FreeVDO
  \/ ReturnConfig
  \/ Printf
  \/ Exit
  \/ Reinvoke

Spec == Init /\ [][Next]_vars

\* =================================================================== claims
\* The vocabulary of the claims, stated on the invocation itself.

Words == Tail(argv0)

\* A word written as a flag: it starts with '-' and is longer than "-".
IsFlagWord(w) == Len(w) >= 2 /\ w[1] = "-"
IsHelpFlag(w) == w \in {TokH, TokHelp}
IsUnknownFlag(w) == IsFlagWord(w) /\ w # TokDD /\ ~IsHelpFlag(w)

\* The positional arguments: the words that are no flags, and every word
\* after "--"; under POSIXLY_CORRECT every word from the first non-flag on.
RECURSIVE Positionals(_, _)
Positionals(ws, px) ==
  IF ws = << >> THEN << >>
  ELSE IF Head(ws) = TokDD THEN Tail(ws)
  ELSE IF IsFlagWord(Head(ws)) THEN Positionals(Tail(ws), px)
  ELSE IF px THEN ws
  ELSE <<Head(ws)>> \o Positionals(Tail(ws), px)

\* The flags of the command line, in order: the flag words that are not
\* positional arguments.
RECURSIVE Flags(_, _)
Flags(ws, px) ==
  IF ws = << >> \/ Head(ws) = TokDD THEN << >>
  ELSE IF IsFlagWord(Head(ws)) THEN <<Head(ws)>> \o Flags(Tail(ws), px)
  ELSE IF px THEN << >>
  ELSE Flags(Tail(ws), px)

FirstFlagIsHelp    == Flags(Words, posix) # << >> /\ IsHelpFlag(Head(Flags(Words, posix)))
FirstFlagIsUnknown == Flags(Words, posix) # << >> /\ IsUnknownFlag(Head(Flags(Words, posix)))
HasUnknownFlag ==
  \E i \in 1..Len(Flags(Words, posix)) : IsUnknownFlag(Flags(Words, posix)[i])
HasHelpWord == \E i \in 1..Len(Words) : IsHelpFlag(Words[i])

Count(tr, ev) == Cardinality({i \in 1..Len(tr) : tr[i] = ev})
Terminated == pc = "exited"
OpenSucceeded == Count(trace, "open") > 0
OpenFailed    == \E i \in 1..Len(opens) : opens[i].result # "VDO_SUCCESS"

ReportFmts ==
  <<"VDOConfig:\n", "  blockSize: %d\n", "  logicalBlocks: %lu\n",
    "  physicalBlocks: %lu\n", "  slabSize: %lu\n", "  recoveryJournalSize: %lu\n",
    "  slabJournalBlocks: %lu\n">>
UsageFmt    == "%s: Usage: %s [--help] vdoBacking\n\n"
LoadFailFmt == "%s: Could not load VDO from '%s'\n"

Fmts(stream) == {stream[i].fmt : i \in 1..Len(stream)}
NoConfigOutput == Fmts(stdout) \cap {ReportFmts[i] : i \in 1..Len(ReportFmts)} = {}
UsageOnStderr ==
  /\ stderr # << >>
  /\ stderr[Len(stderr)].fmt = UsageFmt
  /\ Count([i \in 1..Len(stderr) |-> stderr[i].fmt], UsageFmt) = 1
HelpOnStdout == stdout = <<[fmt |-> helpString, args |-> << >>]>>

\* Reading a decimal numeral back: the value of a digit, and acc * 10 + d on
\* the limbs of a uint64_t (<<-1>> when the numeral leaves the range).
DigitValue(ch) == CHOOSE d \in 0..9 : DigitChars[d + 1] = ch
IsDigit(ch) == \E d \in 0..9 : DigitChars[d + 1] = ch

RECURSIVE TimesTenPlus(_, _, _)
TimesTenPlus(v, i, carry) ==
  IF i = 0 THEN (IF carry = 0 THEN << >> ELSE <<-1>>)
  ELSE LET t    == v[i] * 10 + carry
           high == TimesTenPlus(v, i - 1, t \div Limb)
       IN  IF high = <<-1>> THEN <<-1>> ELSE Append(high, t % Limb)

RECURSIVE ParseU64(_)
ParseU64(ds) ==
  IF ds = << >> THEN U64Zero
  ELSE LET front == ParseU64(SubSeq(ds, 1, Len(ds) - 1))
       IN  IF front = <<-1>> THEN <<-1>>
           ELSE TimesTenPlus(front, 4, DigitValue(ds[Len(ds)]))

\* An unsigned decimal numeral: digits only, no sign, no leading zero.
IsUnsignedDecimal(ds) ==
  /\ ds # << >>
  /\ \A i \in 1..Len(ds) : IsDigit(ds[i])
  /\ (Len(ds) > 1 => ds[1] # "0")

Renders(line, fmt, value) ==
  /\ line.fmt = fmt
  /\ Len(line.args) = 1
  /\ IsUnsignedDecimal(line.args[1])
  /\ ParseU64(line.args[1]) = value

\* The report of configuration cfg: the header and the six labelled lines.
IsReportOf(out, cfg) ==
  /\ Len(out) = 7
  /\ out[1] = [fmt |-> ReportFmts[1], args |-> << >>]
  /\ Renders(out[2], ReportFmts[2], U64(0, 0, 0, VDO_BLOCK_SIZE))
  /\ Renders(out[3], ReportFmts[3], cfg.logicalBlocks)
  /\ Renders(out[4], ReportFmts[4], cfg.physicalBlocks)
  /\ Renders(out[5], ReportFmts[5], cfg.slabSize)
  /\ Renders(out[6], ReportFmts[6], cfg.recoveryJournalSize)
  /\ Renders(out[7], ReportFmts[7], cfg.slabJournalBlocks)

\* The backing-store path of the invocation and the file it names.
BackingPath == Head(Positionals(Words, posix))
BackingFile == FileAt(BackingPath, disk0)

\* ------------------------------------------------------------------- C1
\* C1: the handle is closed exactly once if and only if the open succeeded:
\* never before or without a successful open, never twice, before the first
\* write of the report (so also when a write fails), and a terminated
\* process has closed every handle it opened.
C1_ClosedExactlyOnce ==
  /\ Count(trace, "free") <= Count(trace, "open")
  /\ Count(trace, "free") <= 1
  /\ (stdout # << >> /\ OpenSucceeded => Count(trace, "free") = 1)
  /\ (Terminated => Count(trace, "free") = Count(trace, "open") /\ vdo.st # "open")

\* A run whose report hit a failed write has terminated with its one close.
C1_Witness ==
  Terminated /\ OpenSucceeded /\ outErr /\ Count(trace, "free") = 1

\* ------------------------------------------------------------------- C2
\* C2: when makeVDOFromFile fails, it was called once, the process has
\* exited with code 1, standard error holds the diagnostic naming the
\* backing-store path, and nothing was written to standard output; and a
\* single path that names no valid volume always ends this way.
C2_LoadFailure ==
  /\ OpenFailed =>
       /\ Terminated
       /\ exitCode = 1
       /\ Len(opens) = 1
       /\ stdout = << >>
       /\ delivered = << >>
       /\ stderr = <<[fmt |-> LoadFailFmt, args |-> <<Progname, BackingPath>>]>>
  /\ (Terminated /\ Flags(Words, posix) = << >> /\ Len(Positionals(Words, posix)) = 1
        /\ BackingFile.kind # "vdo") => OpenFailed

\* A file that is no volume, named after "--", was refused.
C2_Witness ==
  /\ Terminated /\ OpenFailed
  /\ Words = <<TokDD, TokVol>>
  /\ disk.kind = "empty"

\* ------------------------------------------------------------------- C3
\* C3 as stated: with zero or two-or-more positional arguments, whatever the
\* flags, the process exits 1 with the usage message on standard error, no
\* configuration output and no open.
C3_AsStated ==
  (Len(Positionals(Words, posix)) # 1 /\ Terminated) =>
    /\ exitCode = 1
    /\ UsageOnStderr
    /\ NoConfigOutput
    /\ opens = << >>

\* C3, amended: with zero or two-or-more positional arguments there is no
\* configuration output and no open; the process exits 1 with the usage
\* message on standard error, unless the first flag is --help or -h, and
\* then it prints the help text and exits 0.
C3_WrongPositionalCount ==
  Len(Positionals(Words, posix)) # 1 =>
    /\ opens = << >>
    /\ NoConfigOutput
    /\ Terminated =>
         IF FirstFlagIsHelp
           THEN exitCode = 0 /\ HelpOnStdout /\ stderr = << >>
           ELSE exitCode = 1 /\ UsageOnStderr /\ stdout = << >>

\* Two paths and no flag ended as a usage error.
C3_Witness ==
  /\ Terminated
  /\ Len(Positionals(Words, posix)) >= 2
  /\ Flags(Words, posix) = << >>
  /\ exitCode = 1

\* ------------------------------------------------------------------- C4
\* C4 as stated: a command line that contains --help or -h anywhere prints
\* the help text to standard output and exits 0 without initializing the
\* logger or opening a backing store.
C4_AsStated ==
  HasHelpWord =>
    /\ Count(trace, "openLogger") = 0
    /\ opens = << >>
    /\ Terminated => HelpOnStdout /\ exitCode = 0

\* C4, amended: when the first flag of the command line is --help or -h
\* (positional arguments may precede it, an unrecognized flag or "--" may
\* not; anything may follow), the help text is printed to standard output
\* and the process exits 0 without initializing the logger or opening a
\* backing store.
C4_HelpFirst ==
  FirstFlagIsHelp =>
    /\ Count(trace, "openLogger") = 0
    /\ opens = << >>
    /\ Terminated => HelpOnStdout /\ exitCode = 0 /\ stderr = << >>

\* Help after a path and before an unrecognized flag was honoured.
C4_Witness ==
  /\ Terminated
  /\ Words = <<TokVol, TokH, TokX>>
  /\ exitCode = 0

\* ------------------------------------------------------------------- C5
\* C5 as stated: a command line with an unrecognized flag, wherever it
\* stands, exits 1 with the usage message on standard error, and never
\* prints help, a load diagnostic or configuration, and never opens.
C5_AsStated ==
  HasUnknownFlag =>
    /\ opens = << >>
    /\ stdout = << >>
    /\ Terminated => exitCode = 1 /\ UsageOnStderr /\ LoadFailFmt \notin Fmts(stderr)

\* C5, amended: a command line whose first flag is unrecognized exits 1
\* with the usage message on standard error (after getopt's own complaint),
\* and never prints help, a load diagnostic or configuration, and never
\* opens a backing store.
C5_UnknownFirst ==
  FirstFlagIsUnknown =>
    /\ opens = << >>
    /\ stdout = << >>
    /\ Terminated => exitCode = 1 /\ UsageOnStderr /\ LoadFailFmt \notin Fmts(stderr)

\* An unrecognized flag ahead of --help ended as a usage error.
C5_Witness ==
  /\ Terminated
  /\ Words = <<TokX, TokHelp>>
  /\ exitCode = 1

\* ------------------------------------------------------------------- C6
\* C6: one positional argument, no flags and a successful open: standard
\* output is the header and the six labelled lines in the fixed order, the
\* block size being the format constant and every other value the unsigned
\* decimal numeral of the persisted field, and the exit code is 0.
C6_Report ==
  (Len(Words) = 1 /\ ~IsFlagWord(Words[1]) /\ OpenSucceeded /\ Terminated) =>
    /\ IsReportOf(stdout, BackingFile.config)
    /\ exitCode = 0

\* The report of a volume whose fields are all 2^64 - 1 was printed.
C6_Witness ==
  /\ Terminated /\ OpenSucceeded
  /\ Words = <<TokVol>>
  /\ disk0.config = MaxConfig
  /\ Len(stdout) = 7

\* ------------------------------------------------------------------- C7
\* C7: every open request is read-only, and the backing store is at every
\* moment what it was before the first run, whatever its state and however
\* the run ends.
C7_ReadOnly ==
  /\ \A i \in 1..Len(opens) : opens[i].readOnly
  /\ disk = disk0

\* A dirty volume was opened and the run has ended.
C7_Witness ==
  /\ Terminated /\ OpenSucceeded
  /\ disk0.state = "dirty"

C9_NoSilentWriteFailure ==
  (Terminated /\ OpenSucceeded /\ exitCode = 0) =>
    /\ ~outErr
    /\ delivered = stdout
    /\ Len(delivered) = 7

\* ------------------------------------------------------------------ C10
\* The events of a run that reports, in order.
ReportRun ==
  <<"processArgs", "openLogger", "open", "copy", "free", "return",
    "printf", "printf", "printf", "printf", "printf", "printf", "printf", "exit">>

\* C10: a run that reaches volume access goes through argument resolution,
\* one logger initialization, one open, the copy, the close, the seven
\* writes and the exit in this order; the copy is taken from the open
\* handle, nothing is written while the handle is open, and what is
\* printed is the copied configuration.
C10_Order ==
  /\ OpenSucceeded =>
       /\ IsPrefix(trace, ReportRun)
       /\ (Terminated => trace = ReportRun)
       /\ (vdo.st = "open" => stdout = << >>)
       /\ (Count(trace, "copy") = 1 => config = BackingFile.config)
       /\ (stdout # << >> => vdo.st = "freed" /\ stdout = SubSeq(mainPrintfs(config), 1, calls))
  /\ opens # << >> /\ ~OpenSucceeded =>
       trace = <<"processArgs", "openLogger", "openfail", "exit">>

\* A reporting run has gone through all its events.
C10_Witness == Terminated /\ trace = ReportRun

====
